---- MODULE Spec2Model ----
(***************************************************************************)
(* Model of the text-to-structured-record extraction pipeline of the HCP   *)
(* interaction logger backend (agent.py, models.py).                       *)
(*                                                                         *)
(* Strings the code inspects character by character (the date and time     *)
(* strings given to datetime.strptime, the sentiment string matched        *)
(* against the enum) are sequences of one-character strings, so parsing    *)
(* is computed the way the code computes it.                               *)
(***************************************************************************)
EXTENDS Integers, Sequences, FiniteSets, TLC

(***************************************************************************)
(* Python values                                                           *)
(***************************************************************************)
NoneVal == [tag |-> "none"]
StrVal(s) == [tag |-> "str", s |-> s]
EnumVal(s) == [tag |-> "enum", s |-> s]
ListVal(l) == [tag |-> "list", l |-> l]
DateVal(y, m, d) == [tag |-> "date", y |-> y, m |-> m, d |-> d]
TimeVal(h, mi) == [tag |-> "time", h |-> h, mi |-> mi]

IsStr(v) == v.tag = "str"

(***************************************************************************)
(* Characters                                                              *)
(***************************************************************************)
Digits == {"0", "1", "2", "3", "4", "5", "6", "7", "8", "9"}

DigitVal(c) ==
    CASE c = "0" -> 0 [] c = "1" -> 1 [] c = "2" -> 2 [] c = "3" -> 3
      [] c = "4" -> 4 [] c = "5" -> 5 [] c = "6" -> 6 [] c = "7" -> 7
      [] c = "8" -> 8 [] c = "9" -> 9

Whitespace == {" ", "\t", "\n"}

\* s[i], or "" past the end of the string
At(s, i) == IF i >= 1 /\ i <= Len(s) THEN s[i] ELSE ""

RECURSIVE IntOf(_)
\* int(s) for a string of digits, leading blanks ignored as int() does
IntOf(s) ==
    IF s = <<>> THEN 0
    ELSE IF s[Len(s)] \in Digits
         THEN 10 * IntOf(SubSeq(s, 1, Len(s) - 1)) + DigitVal(s[Len(s)])
         ELSE IntOf(SubSeq(s, 1, Len(s) - 1))

RECURSIVE LStrip(_)
LStrip(s) == IF s # <<>> /\ s[1] \in Whitespace THEN LStrip(Tail(s)) ELSE s

RECURSIVE RStrip(_)
RStrip(s) ==
    IF s # <<>> /\ s[Len(s)] \in Whitespace
    THEN RStrip(SubSeq(s, 1, Len(s) - 1))
    ELSE s

\* str.strip()
Strip(s) == RStrip(LStrip(s))

(***************************************************************************)
(* datetime.strptime: the format is compiled to a regular expression whose *)
(* directives are groups of ordered alternatives; the string is matched    *)
(* from its start with backtracking, and a match that does not end at the  *)
(* end of the string is an error ("unconverted data remains").             *)
(***************************************************************************)
RECURSIVE CountDown(_)
\* <<n, n-1, ..., 1>>: the lengths a greedy \s+ tries, longest first
CountDown(n) == IF n <= 0 THEN <<>> ELSE <<n>> \o CountDown(n - 1)

RECURSIVE WsRun(_, _)
\* number of consecutive whitespace characters of s from position i
WsRun(s, i) == IF At(s, i) \in Whitespace THEN 1 + WsRun(s, i + 1) ELSE 0

Alt(cond, n) == IF cond THEN <<n>> ELSE <<>>

\* the lengths, in the order the regular expression tries them, that the
\* directive tok can match of s at position i
Lens(tok, s, i) ==
    LET a == At(s, i)
        b == At(s, i + 1)
    IN  CASE tok = "Y" ->
               Alt(\A k \in 0..3 : At(s, i + k) \in Digits, 4)
          [] tok \in {"m", "I"} ->
               Alt(a = "1" /\ b \in {"0", "1", "2"}, 2)
               \o Alt(a = "0" /\ b \in Digits \ {"0"}, 2)
               \o Alt(a \in Digits \ {"0"}, 1)
          [] tok = "d" ->
               Alt(a = "3" /\ b \in {"0", "1"}, 2)
               \o Alt(a \in {"1", "2"} /\ b \in Digits, 2)
               \o Alt(a = "0" /\ b \in Digits \ {"0"}, 2)
               \o Alt(a \in Digits \ {"0"}, 1)
               \o Alt(a = " " /\ b \in Digits \ {"0"}, 2)
          [] tok = "H" ->
               Alt(a = "2" /\ b \in {"0", "1", "2", "3"}, 2)
               \o Alt(a \in {"0", "1"} /\ b \in Digits, 2)
               \o Alt(a \in Digits, 1)
          [] tok = "M" ->
               Alt(a \in {"0", "1", "2", "3", "4", "5"} /\ b \in Digits, 2)
               \o Alt(a \in Digits, 1)
          [] tok = "p" ->
               Alt(a \in {"a", "A", "p", "P"} /\ b \in {"m", "M"}, 2)
          [] tok = "ws" -> CountDown(WsRun(s, i))
          [] OTHER -> Alt(a = tok, 1)

NoMatch == [ok |-> FALSE, end |-> 0, g |-> <<>>]

RECURSIVE MatchFrom(_, _, _, _)
RECURSIVE TryLens(_, _, _, _, _, _)
\* re.match of the directives pat[k..] against s from position i
MatchFrom(pat, k, s, i) ==
    IF k > Len(pat)
    THEN [ok |-> TRUE, end |-> i, g |-> <<>>]
    ELSE TryLens(pat, k, s, i, Lens(pat[k], s, i), 1)

TryLens(pat, k, s, i, lens, j) ==
    IF j > Len(lens)
    THEN NoMatch
    ELSE LET r == MatchFrom(pat, k + 1, s, i + lens[j])
         IN  IF r.ok
             THEN [ok |-> TRUE, end |-> r.end,
                   g |-> (pat[k] :> SubSeq(s, i, i + lens[j] - 1)) @@ r.g]
             ELSE TryLens(pat, k, s, i, lens, j + 1)

\* the groups of a match that covers the whole string, or NoMatch
FullMatch(pat, s) ==
    LET r == MatchFrom(pat, 1, s, 1)
    IN  IF r.ok /\ r.end = Len(s) + 1 THEN r ELSE NoMatch

IsLeap(y) == (y % 4 = 0) /\ ((y % 100 # 0) \/ (y % 400 = 0))

DaysInMonth(y, m) ==
    IF m = 2 THEN (IF IsLeap(y) THEN 29 ELSE 28)
    ELSE IF m \in {4, 6, 9, 11} THEN 30 ELSE 31

\* datetime.date(y, m, d) accepts exactly these
ValidDate(y, m, d) ==
    /\ y >= 1 /\ y <= 9999
    /\ m >= 1 /\ m <= 12
    /\ d >= 1 /\ d <= DaysInMonth(y, m)

\* the date format with the day first
DateFormat_DayFirst == <<"d", "-", "m", "-", "Y">>

DateFormat == <<"Y", "-", "m", "-", "d">>
Time12Format == <<"I", ":", "M", "ws", "p">>
Time24Format == <<"H", ":", "M">>

ValueError == [tag |-> "ValueError"]

\* datetime.strptime(s, "%Y-%m-%d").date(), or ValueError
StrptimeDate(s) ==
    LET r == FullMatch(DateFormat, s)
    IN  IF ~r.ok THEN ValueError
        ELSE LET y == IntOf(r.g["Y"])
                 m == IntOf(r.g["m"])
                 d == IntOf(r.g["d"])
             IN  IF ValidDate(y, m, d) THEN DateVal(y, m, d) ELSE ValueError

\* datetime.strptime(s, "%I:%M %p").time(), or ValueError
StrptimeTime12(s) ==
    LET r == FullMatch(Time12Format, s)
    IN  IF ~r.ok THEN ValueError
        ELSE LET h == IntOf(r.g["I"])
                 mi == IntOf(r.g["M"])
                 pm == r.g["p"][1] \in {"p", "P"}
             IN  TimeVal(IF pm THEN (IF h = 12 THEN 12 ELSE h + 12)
                               ELSE (IF h = 12 THEN 0 ELSE h),
                         mi)

\* datetime.strptime(s, "%H:%M").time(), or ValueError
StrptimeTime24(s) ==
    LET r == FullMatch(Time24Format, s)
    IN  IF ~r.ok THEN ValueError
        ELSE TimeVal(IntOf(r.g["H"]), IntOf(r.g["M"]))

(***************************************************************************)
(* The date and time parsing of run_interaction_parser                     *)
(***************************************************************************)
\* the date parsing without its except clause: the error is not absorbed
NormalizeDate_NoCatch(v) == IF IsStr(v) THEN StrptimeDate(v.s) ELSE v

\* the date parsing without its isinstance test: strptime of a value that is
\* no string raises TypeError, which the except clause turns into None
NormalizeDate_NoGuard(v) ==
    IF IsStr(v)
    THEN LET r == StrptimeDate(v.s)
         IN  IF r = ValueError THEN NoneVal ELSE r
    ELSE NoneVal

\* the new value of extracted_data['interaction_date']
NormalizeDate(v) ==
    IF IsStr(v)
    THEN LET r == StrptimeDate(v.s)
         IN  IF r = ValueError THEN NoneVal ELSE r
    ELSE v

\* the order in which the time formats are tried
TimeFormatOrder == <<"12", "24">>

StrptimeTime(fmt, s) == IF fmt = "12" THEN StrptimeTime12(s) ELSE StrptimeTime24(s)

\* the time parsing with the 24-hour attempt alone
NormalizeTime_Only24(v) ==
    IF IsStr(v)
    THEN LET r == StrptimeTime24(Strip(v.s))
         IN  IF r = ValueError THEN NoneVal ELSE r
    ELSE v

\* the new value of extracted_data['interaction_time']
NormalizeTime(v) ==
    IF IsStr(v)
    THEN LET time_str == Strip(v.s)
             first == StrptimeTime(TimeFormatOrder[1], time_str)
             second == StrptimeTime(TimeFormatOrder[2], time_str)
         IN  IF first # ValueError THEN first
             ELSE IF second # ValueError THEN second
             ELSE NoneVal
    ELSE v

(***************************************************************************)
(* Schema: ExtractedInteractionInfo (agent.py) and InteractionBase /        *)
(* ParseResponse (models.py) declare the same eleven fields.               *)
(***************************************************************************)
StrFields == {"hcp_name", "interaction_type", "topics_discussed", "outcomes",
              "follow_up_actions"}
ListFields == {"attendees", "materials_shared", "samples_distributed"}
Fields == StrFields \cup ListFields
          \cup {"interaction_date", "interaction_time", "hcp_sentiment"}

POSITIVE == <<"P", "o", "s", "i", "t", "i", "v", "e">>
NEUTRAL == <<"N", "e", "u", "t", "r", "a", "l">>
NEGATIVE == <<"N", "e", "g", "a", "t", "i", "v", "e">>
SentimentEnum == {POSITIVE, NEUTRAL, NEGATIVE}

\* dict.get(k): the value, or None when the key is missing
Get(d, k) == IF k \in DOMAIN d THEN d[k] ELSE NoneVal

\* {**a, **b}
Merge(a, b) == [k \in DOMAIN a \cup DOMAIN b |-> IF k \in DOMAIN b THEN b[k] ELSE a[k]]

Dict(d) == [tag |-> "dict", d |-> d]
Exc(type, msg) == [tag |-> "exc", type |-> type, msg |-> msg]
\* an f-string "<prefix><str(e)>"
Msg(prefix, detail) == [tag |-> "msg", prefix |-> prefix, detail |-> detail]

\* Python truthiness of the values the pipeline tests with "if"
Truthy(v) ==
    CASE v.tag = "none" -> FALSE
      [] v.tag = "dict" -> DOMAIN v.d # {}
      [] v.tag = "str" -> v.s # <<>>
      [] v.tag = "list" -> v.l # <<>>
      [] OTHER -> TRUE

(***************************************************************************)
(* structured_llm = llm.with_structured_output(ExtractedInteractionInfo):   *)
(* the model's answer is coerced into the schema class, and an answer that *)
(* does not fit the declared field types raises inside ainvoke.            *)
(***************************************************************************)
\* one field of ExtractedInteractionInfo accepts the value v
FieldAccepts(f, v) ==
    \/ v.tag = "none"
    \/ f \in StrFields \cup {"interaction_date", "interaction_time"} /\ v.tag = "str"
    \/ f \in ListFields /\ v.tag = "list"
    \/ f = "hcp_sentiment" /\ v.tag = "str" /\ v.s \in SentimentEnum

\* the value the schema class holds for field f
FieldCoerce(f, v) ==
    IF f = "hcp_sentiment" /\ v.tag = "str" THEN EnumVal(v.s) ELSE v

\* await structured_llm.ainvoke(messages): [raised, value | exc]
StructuredOutput(resp) ==
    CASE resp.kind = "raise" -> [raised |-> TRUE, exc |-> resp.exc]
      [] resp.kind = "none" -> [raised |-> FALSE, value |-> NoneVal]
      [] OTHER ->
           IF \A f \in DOMAIN resp.args : f \in Fields => FieldAccepts(f, resp.args[f])
           THEN [raised |-> FALSE,
                 value |-> [tag |-> "model",
                            d |-> [f \in Fields |-> FieldCoerce(f, Get(resp.args, f))]]]
           ELSE [raised |-> TRUE,
                 exc |-> Exc("ValidationError", "validation error for ExtractedInteractionInfo")]

\* response.dict() without exclude_none: the fields that are None stay
DictExcludeNone_KeepNone(obj) == obj.d

\* response.dict(exclude_none=True)
DictExcludeNone(obj) ==
    [f \in {g \in DOMAIN obj.d : obj.d[g] # NoneVal} |-> obj.d[f]]

\* call_extraction_model losing the error message of a failed call
CallExtractionModel_DropsError(state, resp) ==
    LET r == StructuredOutput(resp)
    IN  IF r.raised \/ r.value.tag # "model"
        THEN Merge(state, [extracted_data |-> NoneVal, error_message |-> NoneVal])
        ELSE Merge(state, [extracted_data |-> Dict(DictExcludeNone(r.value)),
                           error_message |-> NoneVal])

\* the state call_extraction_model returns, given what the model call did
CallExtractionModel(state, resp) ==
    LET r == StructuredOutput(resp)
        failed(e) == Merge(state, [extracted_data |-> NoneVal,
                                   error_message |-> Msg("Error during LLM call: ", e.msg)])
    IN  IF r.raised THEN failed(r.exc)
        ELSE IF r.value.tag # "model"
        THEN failed(Exc("AttributeError", "'NoneType' object has no attribute 'dict'"))
        ELSE Merge(state, [extracted_data |-> Dict(DictExcludeNone(r.value)),
                           error_message |-> NoneVal])

END == "__end__"

\* a workflow that runs the node again after a failed call
EdgeFrom_RetryOnError(node, state) ==
    IF Truthy(Get(state, "error_message")) THEN "extract_info" ELSE END

\* a workflow that runs the node again when nothing was extracted
EdgeFrom_RetryOnEmpty(node, state) ==
    IF Truthy(Get(state, "extracted_data")) THEN END ELSE "extract_info"

\* workflow.add_edge("extract_info", END): the node that follows extract_info
EdgeFrom(node, state) == END

(***************************************************************************)
(* ParseResponse of keyword arguments: a pydantic model with the fields of            *)
(* InteractionBase and no others.  Keyword arguments that name no field    *)
(* are ignored; a declared field of the wrong type is a validation error.  *)
(***************************************************************************)
FieldValid(f, v) ==
    \/ v.tag = "none"
    \/ f \in StrFields /\ v.tag = "str"
    \/ f \in ListFields /\ v.tag = "list"
    \/ f = "interaction_date" /\ v.tag = "date"
    \/ f = "interaction_time" /\ v.tag = "time"
    \/ f = "hcp_sentiment" /\ v.tag \in {"enum", "str"} /\ v.s \in SentimentEnum

\* a response model that rejects keyword arguments naming no field
ParseResponse_ForbidExtra(kwargs) ==
    IF DOMAIN kwargs \subseteq Fields /\ \A f \in DOMAIN kwargs : FieldValid(f, kwargs[f])
    THEN [ok |-> TRUE, obj |-> [f \in Fields |-> Get(kwargs, f)]]
    ELSE [ok |-> FALSE,
          exc |-> Exc("ValidationError", "validation error for ParseResponse")]

ParseResponse(kwargs) ==
    IF \A f \in DOMAIN kwargs \cap Fields : FieldValid(f, kwargs[f])
    THEN [ok |-> TRUE,
          obj |-> [f \in Fields |->
                     LET v == Get(kwargs, f)
                     IN  IF f = "hcp_sentiment" /\ v.tag = "str" THEN EnumVal(v.s) ELSE v]]
    ELSE [ok |-> FALSE,
          exc |-> Exc("ValidationError", "validation error for ParseResponse")]

(***************************************************************************)
(* run_interaction_parser: the return statements and the two handlers      *)
(***************************************************************************)
\* return ParseResponse of keyword arguments at the return statement named branch
Return(kwargs, branch) ==
    LET r == ParseResponse(kwargs)
    IN  IF r.ok
        THEN [kind |-> "return", value |-> r.obj, branch |-> branch, kwargs |-> kwargs]
        ELSE [kind |-> "raise", exc |-> r.exc]

\* except Exception as validation_error (the inner handler)
ValidationHandler(o) ==
    IF o.kind = "raise"
    THEN Return([error |-> Msg("Validation error", ""),
                 error_details |-> Msg("", o.exc.msg)], "validation_error")
    ELSE o

\* except Exception as agent_exec_error (the outer handler)
AgentExecHandler(o) ==
    IF o.kind = "raise"
    THEN Return([error |-> Msg("Agent execution error", ""),
                 error_details |-> Msg("", o.exc.msg)], "agent_exec_error")
    ELSE o

\* a test for None alone, which lets an empty dict through
NoData_OnlyNone(extracted) == extracted.tag = "none"

\* "if not extracted_data"
NoData(extracted) == ~Truthy(extracted)

\* a parsing step that builds a new dict of the date and the time alone
NormalizeDict_OnlyDateTime(d) ==
    [k \in DOMAIN d \cap {"interaction_date", "interaction_time"} |->
        IF k = "interaction_date" THEN NormalizeDate(d[k]) ELSE NormalizeTime(d[k])]

\* the date and time parsing applied to the dict, in place
NormalizeDict(d) ==
    [k \in DOMAIN d |->
        CASE k = "interaction_date" -> NormalizeDate(d[k])
          [] k = "interaction_time" -> NormalizeTime(d[k])
          [] OTHER -> d[k]]

(***************************************************************************)
(* Bounds and inputs                                                       *)
(***************************************************************************)
\* cap on the model calls of one invocation (the code has no counter)
MaxCalls == 2
\* how many times the normalization harness re-applies the step
MaxApply == 2
\* days that pass while the process runs
MaxDay == 1
\* invocations of run_interaction_parser in flight together
NumReq == 2
\* requests to submit_interaction, one after the other
MaxRequests == 2

Chars(n) == CASE n = "empty" -> <<>>
              [] n = "blank" -> <<" ", "\t">>
              [] n = "met" -> <<"M", "e", "t", " ", "D", "r">>
              [] n = "Dr" -> <<"D", "r">>
              [] n = "date_iso" -> <<"2", "0", "2", "4", "-", "0", "3", "-", "1", "5">>
              [] n = "date_short" -> <<"2", "0", "2", "4", "-", "3", "-", "5">>
              [] n = "date_feb30" -> <<"2", "0", "2", "4", "-", "0", "2", "-", "3", "0">>
              [] n = "date_us" -> <<"0", "3", "/", "1", "5", "/", "2", "0", "2", "4">>
              [] n = "time_12" -> <<"0", "2", ":", "3", "0", " ", "P", "M">>
              [] n = "time_24" -> <<"1", "4", ":", "3", "0">>
              [] n = "time_12s" -> <<"2", ":", "3", "0", " ", "p", "m">>
              [] n = "time_25" -> <<"2", "5", ":", "0", "0">>
              [] n = "Mixed" -> <<"M", "i", "x", "e", "d">>
              [] n = "positive" -> <<"p", "o", "s", "i", "t", "i", "v", "e">>
              [] n = "topic" -> <<"d", "o", "s", "e">>

\* the texts submitted for parsing
Texts == {Chars("empty"), Chars("blank"), Chars("met")}

NameChoices == {NoneVal, StrVal(Chars("Dr"))}
DateChoices == {NoneVal} \cup {StrVal(Chars(n)) :
                   n \in {"empty", "date_iso", "date_short", "date_feb30", "date_us"}}
TimeChoices == {NoneVal} \cup {StrVal(Chars(n)) :
                   n \in {"empty", "time_12", "time_24", "time_12s", "time_25"}}
SentimentChoices == {NoneVal} \cup {StrVal(c) :
                   c \in {POSITIVE, NEGATIVE, Chars("Mixed"), Chars("positive")}}
AttendeeChoices == {NoneVal, ListVal(<<>>), ListVal(<<Chars("Dr"), Chars("met")>>)}
RestChoices == {NoneVal, StrVal(Chars("topic"))}

\* the arguments of the tool call by which the model answers
CandidateArgs ==
    {[f \in Fields |->
        CASE f = "hcp_name" -> n
          [] f = "interaction_date" -> d
          [] f = "interaction_time" -> t
          [] f = "hcp_sentiment" -> se
          [] f = "attendees" -> a
          [] f \in ListFields -> (IF r = NoneVal THEN NoneVal ELSE ListVal(<<r.s>>))
          [] OTHER -> r] :
     n \in NameChoices, d \in DateChoices, t \in TimeChoices,
     se \in SentimentChoices, a \in AttendeeChoices, r \in RestChoices}

\* what one call to the model can do: raise, answer without a tool call,
\* or answer with a tool call
Responses ==
    {[kind |-> "raise", exc |-> e] :
        e \in {Exc("APIConnectionError", "Connection error."),
               Exc("RateLimitError", "Rate limit reached")}}
    \cup {[kind |-> "none"]}
    \cup {[kind |-> "args", args |-> a] : a \in CandidateArgs}

Pending == [kind |-> "pending"]

(***************************************************************************)
(* State                                                                   *)
(***************************************************************************)
VARIABLES
    pc,              \* position of the invocation of run_interaction_parser
    state,           \* the GraphState of the workflow
    extracted_data,  \* the local dict of run_interaction_parser
    outcome,         \* what the invocation gave its caller
    llm_calls,       \* calls issued to the model by this invocation
    raw,             \* what the model call did
    trace,           \* the steps run, in order
    today,           \* the calendar day, counted from the day of the import
    schema_date,     \* the date written in the description of interaction_date
    request,         \* what the invocation sent to the model
    cpc,             \* concurrent invocations: the position of each
    ctext,           \* concurrent invocations: the text each was given
    cstate,          \* concurrent invocations: the GraphState dicts
    craw,            \* concurrent invocations: what each model call did
    coutcome,        \* concurrent invocations: what each gave its caller
    rpc,             \* submit request: its position
    payload,         \* submit request: the fields set in the InteractionCreate
    db_table,        \* the committed rows of the interactions table
    db_pending,      \* rows flushed in the open transaction
    db_session,      \* the session of get_db: "none", "open" or "closed"
    db_interaction,  \* the InteractionDB object of the request
    result,          \* what the request gave the client
    before,          \* the committed rows when the request began
    failed_at,       \* the step of the request that raised, or "none"
    nreq,            \* requests begun
    nfield,          \* harness: the field normalized
    nhist            \* harness: the value, before and after each application

vars == <<pc, state, extracted_data, outcome, llm_calls, raw, trace,
          today, schema_date, request, cpc, ctext, cstate, craw, coutcome,
          rpc, payload, db_table, db_pending, db_session, db_interaction,
          result, before, failed_at, nreq, nfield, nhist>>
nvars == <<nfield, nhist>>
kvars == <<cpc, ctext, cstate, craw, coutcome>>
cvars == <<today, schema_date, request>>
pvars == <<pc, state, extracted_data, outcome, llm_calls, raw, trace, cvars>>
\* the variables outside the pipeline
dvars == <<rpc, payload, db_table, db_pending, db_session, db_interaction,
           result, before, failed_at, nreq>>
ovars == <<nvars, kvars, dvars>>

\* datetime.now().strftime('%Y-%m-%d'), in days
Now == today

\* the schema bound to the model: the class body of ExtractedInteractionInfo
\* runs once, when the module is imported, and its description of
\* interaction_date holds the date of that moment
SchemaAtImport == Now

PipelineInit ==
    /\ pc = "Start"
    /\ state = <<>>
    /\ extracted_data = <<>>
    /\ outcome = Pending
    /\ llm_calls = 0
    /\ raw = Pending
    /\ trace = <<>>
    /\ today = 0
    /\ schema_date = SchemaAtImport
    /\ request = <<>>

Invocations == 1 .. NumReq

ConcInit ==
    /\ cpc = [p \in Invocations |-> "Start"]
    /\ ctext = [p \in Invocations |-> <<>>]
    /\ cstate = [p \in Invocations |-> <<>>]
    /\ craw = [p \in Invocations |-> Pending]
    /\ coutcome = [p \in Invocations |-> Pending]

DbInit ==
    /\ rpc = "Idle"
    /\ payload = <<>>
    /\ db_table = <<>>
    /\ db_pending = <<>>
    /\ db_session = "none"
    /\ db_interaction = NoneVal
    /\ result = Pending
    /\ before = <<>>
    /\ failed_at = "none"
    /\ nreq = 0

HarnessIdle ==
    /\ nfield = "interaction_date"
    /\ nhist = <<>>

Init ==
    /\ PipelineInit
    /\ ConcInit
    /\ DbInit
    /\ HarnessIdle

\* the invocation ends with outcome o: a returned value, or an exception
\* that reached the caller
Finish(o) ==
    /\ outcome' = o
    /\ pc' = IF o.kind = "return" THEN "Done" ELSE "Raised"

\* run_interaction_parser(text) up to the scheduling of the entry node
Invoke(t) ==
    /\ pc = "Start"
    /\ state' = [original_text |-> StrVal(t)]
    /\ pc' = "Node"
    /\ UNCHANGED <<extracted_data, outcome, llm_calls, raw, trace, cvars, ovars>>

\* the prompt and the schema sent by call_extraction_model; made_on records
\* the day on which the request is made
Request(st) ==
    [text |-> Get(st, "original_text"),
     prompt_date |-> NoneVal,
     current_date |-> schema_date,
     made_on |-> today]

\* call_extraction_model up to the await of structured_llm.ainvoke
EnterNode ==
    /\ pc = "Node"
    /\ llm_calls < MaxCalls
    /\ llm_calls' = llm_calls + 1
    /\ trace' = Append(trace, "Calling")
    /\ pc' = "Awaiting"
    /\ request' = Request(state)
    /\ UNCHANGED <<state, extracted_data, outcome, raw, today, schema_date, ovars>>

\* the model call completes; call_extraction_model returns the new state
\* and the workflow follows the edge out of the node
LLMResponds(resp) ==
    /\ pc = "Awaiting"
    /\ raw' = resp
    /\ state' = CallExtractionModel(state, resp)
    /\ pc' = IF EdgeFrom("extract_info", state') = END THEN "Returned" ELSE "Node"
    /\ UNCHANGED <<extracted_data, outcome, llm_calls, trace, cvars, ovars>>

\* the checks of the final state: error message, then empty extraction
CheckFinalState ==
    /\ pc = "Returned"
    /\ IF Truthy(Get(state, "error_message"))
       THEN /\ Finish(AgentExecHandler(
                   Return([error |-> state.error_message], "error_message")))
            /\ UNCHANGED extracted_data
       ELSE IF NoData(Get(state, "extracted_data"))
       THEN /\ Finish(AgentExecHandler(
                   Return([error |-> Msg("No data extracted", "")], "no_data")))
            /\ UNCHANGED extracted_data
       ELSE /\ extracted_data' = state.extracted_data.d
            /\ pc' = "Normalizing"
            /\ UNCHANGED outcome
    /\ UNCHANGED <<state, llm_calls, raw, trace, cvars, ovars>>

\* the date and time parsing
Normalize ==
    /\ pc = "Normalizing"
    /\ extracted_data' = NormalizeDict(extracted_data)
    /\ trace' = Append(trace, "Normalizing")
    /\ pc' = "Validating"
    /\ UNCHANGED <<state, outcome, llm_calls, raw, cvars, ovars>>

\* the construction of the response object, under both handlers
Validate ==
    /\ pc = "Validating"
    /\ trace' = Append(trace, "Validating")
    /\ Finish(AgentExecHandler(ValidationHandler(
           Return(extracted_data, "response_obj"))))
    /\ UNCHANGED <<state, extracted_data, llm_calls, raw, cvars, ovars>>

\* midnight passes while the process waits for a request
Tick ==
    /\ pc = "Start"
    /\ today < MaxDay
    /\ today' = today + 1
    /\ UNCHANGED <<pc, state, extracted_data, outcome, llm_calls, raw, trace,
                   schema_date, request, ovars>>

Next ==
    \/ \E t \in Texts : Invoke(t)
    \/ EnterNode
    \/ \E resp \in Responses : LLMResponds(resp)
    \/ CheckFinalState
    \/ Normalize
    \/ Validate
    \/ Tick

Spec == Init /\ [][Next]_vars

(***************************************************************************)
(* Harness for the date and time parsing taken alone: a value is given to  *)
(* the parsing step of run_interaction_parser, and the step is applied     *)
(* again to its own result.                                                *)
(***************************************************************************)
DateHeads == {<<>>,
    <<" ">>}
DateYears == {<<"2", "0", "2", "4">>,
             <<"2", "0", "2", "3">>,
             <<"1", "9", "0", "0">>,
             <<"2", "0", "0", "0">>,
             <<"0", "0", "0", "0">>,
             <<"2", "4">>}
DateSeps == {<<"-">>,
    <<"/">>}
DateMonths == {<<"0", "2">>,
              <<"2">>,
              <<"1", "2">>,
              <<"1", "3">>,
              <<"0", "0">>,
              <<"4">>}
DateDays == {<<"2", "9">>,
            <<"3", "0">>,
            <<"3", "1">>,
            <<"3", "2">>,
            <<"5">>,
            <<"0", "5">>,
            <<" ", "5">>,
            <<"0", "0">>}
DateTails == {<<>>,
    <<" ">>,
    <<"0">>}

DateStrings ==
    {<<>>} \cup
    {h \o y \o sep \o m \o sep \o d \o t :
        h \in DateHeads, y \in DateYears, sep \in DateSeps, m \in DateMonths,
        d \in DateDays, t \in DateTails}

TimeHeads == {<<>>,
    <<" ">>}
TimeHours == {<<"0", "2">>,
             <<"2">>,
             <<"1", "2">>,
             <<"1", "3">>,
             <<"0", "0">>,
             <<"0">>,
             <<"2", "3">>,
             <<"2", "4">>}
TimeSeps == {<<":">>,
    <<".">>}
TimeMinutes == {<<"3", "0">>,
               <<"5">>,
               <<"0", "5">>,
               <<"6", "0">>,
               <<"5", "9">>,
               <<"0", "0">>}
TimeSuffixes == {<<>>,
                <<" ", "P", "M">>,
                <<" ", "p", "m">>,
                <<" ", "A", "M">>,
                <<" ", "a", "M">>,
                <<"P", "M">>,
                <<" ", " ", "P", "M">>,
                <<" ", "X", "M">>,
                <<":", "0", "0">>,
                <<" ">>}

TimeStrings ==
    {<<>>} \cup
    {h \o hh \o sep \o mm \o su :
        h \in TimeHeads, hh \in TimeHours, sep \in TimeSeps, mm \in TimeMinutes,
        su \in TimeSuffixes}

CanonicalDates == {DateVal(2024, 3, 15), DateVal(2000, 2, 29), DateVal(1, 1, 1)}
CanonicalTimes == {TimeVal(14, 30), TimeVal(0, 0), TimeVal(23, 59)}

InitNorm ==
    /\ PipelineInit
    /\ ConcInit
    /\ DbInit
    /\ \/ /\ nfield = "interaction_date"
          /\ \E v \in {StrVal(s) : s \in DateStrings} \cup CanonicalDates \cup {NoneVal} :
                nhist = <<v>>
       \/ /\ nfield = "interaction_time"
          /\ \E v \in {StrVal(s) : s \in TimeStrings} \cup CanonicalTimes \cup {NoneVal} :
                nhist = <<v>>

\* the date and time parsing applied to a dict holding the one field
NormalizeStep ==
    /\ Len(nhist) >= 1
    /\ Len(nhist) <= MaxApply
    /\ nhist' = Append(nhist, NormalizeDict((nfield :> nhist[Len(nhist)]))[nfield])
    /\ UNCHANGED <<pvars, kvars, dvars, nfield>>

NextNorm == NormalizeStep

SpecNorm == InitNorm /\ [][NextNorm]_vars

(***************************************************************************)
(* Several invocations of run_interaction_parser in flight on one event    *)
(* loop. An invocation runs without interruption up to its await of        *)
(* structured_llm.ainvoke, and again from the completion of that call to   *)
(* its return; the calls complete in any order.                            *)
(***************************************************************************)
ConcTexts == {Chars("blank"), Chars("met")}

ConcArgs ==
    {a \in CandidateArgs :
        /\ a["follow_up_actions"] = NoneVal
        /\ a["attendees"] # ListVal(<<>>)
        /\ \/ \A f \in Fields : a[f] = NoneVal
           \/ /\ a["hcp_name"] # NoneVal
              /\ a["attendees"] # NoneVal
              /\ a["interaction_date"] \in {StrVal(Chars("date_iso")), StrVal(Chars("date_us"))}
              /\ a["interaction_time"] = StrVal(Chars("time_12"))
              /\ a["hcp_sentiment"] \in {StrVal(NEGATIVE), StrVal(Chars("Mixed"))}}

ConcResponses ==
    {r \in Responses : r.kind = "args" => r.args \in ConcArgs}

\* the dict an invocation works on: inputs (a local of run_interaction_parser)
\* and the states made from it, each a new dict
Slot_Shared(p) == 1
Slot(p) == p

\* run_interaction_parser from the return of app_graph.ainvoke to its own
\* return
FinalOutcome(st) ==
    IF Truthy(Get(st, "error_message"))
    THEN AgentExecHandler(Return([error |-> st.error_message], "error_message"))
    ELSE IF NoData(Get(st, "extracted_data"))
    THEN AgentExecHandler(Return([error |-> Msg("No data extracted", "")], "no_data"))
    ELSE AgentExecHandler(ValidationHandler(
             Return(NormalizeDict(st.extracted_data.d), "response_obj")))

\* run_interaction_parser(t) up to the await of structured_llm.ainvoke
CInvoke(p, t) ==
    /\ cpc[p] = "Start"
    /\ ctext' = [ctext EXCEPT ![p] = t]
    /\ cstate' = [cstate EXCEPT ![Slot(p)] = [original_text |-> StrVal(t)]]
    /\ cpc' = [cpc EXCEPT ![p] = "Awaiting"]
    /\ UNCHANGED <<craw, coutcome, pvars, nvars, dvars>>

\* the model call of p completes and call_extraction_model returns
CRespond(p, resp) ==
    /\ cpc[p] = "Awaiting"
    /\ craw' = [craw EXCEPT ![p] = resp]
    /\ cstate' = [cstate EXCEPT ![Slot(p)] = CallExtractionModel(cstate[Slot(p)], resp)]
    /\ cpc' = [cpc EXCEPT ![p] = "Returned"]
    /\ UNCHANGED <<ctext, coutcome, pvars, nvars, dvars>>

\* p resumes after app_graph.ainvoke and runs to its return
CFinish(p) ==
    /\ cpc[p] = "Returned"
    /\ coutcome' = [coutcome EXCEPT ![p] = FinalOutcome(cstate[Slot(p)])]
    /\ cpc' = [cpc EXCEPT ![p] = "Done"]
    /\ UNCHANGED <<ctext, cstate, craw, pvars, nvars, dvars>>

InitConc ==
    /\ PipelineInit
    /\ ConcInit
    /\ DbInit
    /\ HarnessIdle

NextConc ==
    \/ \E p \in Invocations, t \in ConcTexts : CInvoke(p, t)
    \/ \E p \in Invocations, resp \in ConcResponses : CRespond(p, resp)
    \/ \E p \in Invocations : CFinish(p)

SpecConc == InitConc /\ [][NextConc]_vars

(***************************************************************************)
(* Storage: POST /interactions. The request runs inside the session that   *)
(* get_db yields; submit_interaction calls create_interaction and builds   *)
(* the response; get_db then commits, or rolls back when an exception      *)
(* came out of the endpoint, and closes the session.                       *)
(***************************************************************************)
\* ",".join(l)
RECURSIVE Join(_)
Join(l) ==
    IF l = <<>> THEN <<>>
    ELSE IF Len(l) = 1 THEN l[1]
    ELSE l[1] \o <<",">> \o Join(Tail(l))

\* s.split(',')
RECURSIVE Split(_)
Split(s) ==
    IF \A i \in 1 .. Len(s) : s[i] # ","
    THEN <<s>>
    ELSE LET i == CHOOSE k \in 1 .. Len(s) :
                      s[k] = "," /\ \A j \in 1 .. (k - 1) : s[j] # ","
         IN <<SubSeq(s, 1, i - 1)>> \o Split(SubSeq(s, i + 1, Len(s)))

\* InteractionDB.set_attendees, set_materials_shared,
\* set_samples_distributed: the value given to the column
SetList(l) == IF Truthy(ListVal(l)) THEN StrVal(Join(l)) ELSE NoneVal

\* InteractionDB.get_attendees, get_materials_shared,
\* get_samples_distributed
GetList(col) == IF Truthy(col) THEN ListVal(Split(col.s)) ELSE ListVal(<<>>)

\* the column of a list field after create_interaction: the setter is
\* called only for a list that is not empty, the column is NULL otherwise
ColumnOf(v) == IF Truthy(v) THEN SetList(v.l) ELSE NoneVal

\* the InteractionDB object built from the fields set in the request
NewRow(pl, id) ==
    [f \in ListFields \cup {"id"} |->
        IF f = "id" THEN id ELSE ColumnOf(Get(pl, f))]

\* the response built by submit_interaction from the refreshed object
ResponseOf(row) ==
    [f \in ListFields \cup {"id"} |->
        IF f = "id" THEN row["id"] ELSE GetList(row[f])]

\* get_db after its yield: commit when the endpoint returned, rollback
\* when an exception came out of it or out of the commit
AfterYield_CommitAlways(tbl, pend, raised, commit_ok) ==
    [table |-> tbl \o pend, error |-> raised]
AfterYield(tbl, pend, raised, commit_ok) ==
    IF ~raised /\ commit_ok
    THEN [table |-> tbl \o pend, error |-> FALSE]
    ELSE [table |-> tbl, error |-> TRUE]

NameA == <<"A">>
NameB == <<"B">>
NameAB == <<"A", ",", "B">>

ListChoice(f) ==
    IF f = "attendees"
    THEN {NoneVal} \cup {ListVal(l) :
             l \in {<<>>, <<NameA, NameB>>, <<NameAB>>, <<<<>>>>}}
    ELSE {ListVal(<<NameA>>)}

\* interaction_data.dict(exclude_unset=True), list fields
Payloads ==
    UNION {{pl \in [S -> UNION {ListChoice(f) : f \in ListFields}] :
               \A f \in S : pl[f] \in ListChoice(f)} :
           S \in SUBSET ListFields}

\* a request arrives; get_db opens a session and yields it
Submit(pl) ==
    /\ rpc \in {"Idle", "Finished"}
    /\ nreq < MaxRequests
    /\ nreq' = nreq + 1
    /\ payload' = pl
    /\ before' = db_table
    /\ db_session' = "open"
    /\ db_pending' = <<>>
    /\ db_interaction' = NoneVal
    /\ result' = Pending
    /\ failed_at' = "none"
    /\ rpc' = "InEndpoint"
    /\ UNCHANGED <<db_table, pvars, kvars, nvars>>

\* the HTTPException raised by the except clause of submit_interaction
Http500 == [kind |-> "raise", exc |-> Exc("HTTPException", "Failed to save interaction")]

\* crud.create_interaction: it returns the refreshed object, or the flush
\* or the refresh raises and submit_interaction raises HTTPException
CreateInteraction(how) ==
    /\ rpc = "InEndpoint"
    /\ LET row == NewRow(payload, Len(db_table) + 1) IN
         /\ db_pending' = IF how = "flush" THEN db_pending
                                            ELSE Append(db_pending, row)
         /\ db_interaction' = IF how = "ok" THEN row ELSE NoneVal
    /\ failed_at' = IF how = "ok" THEN "none" ELSE how
    /\ result' = IF how = "ok" THEN result ELSE Http500
    /\ rpc' = IF how = "ok" THEN "Created" ELSE "Raising"
    /\ UNCHANGED <<payload, db_table, db_session, before, nreq,
                   pvars, kvars, nvars>>

\* submit_interaction builds and validates the response, or that raises
\* and it raises HTTPException
BuildResponse(ok) ==
    /\ rpc = "Created"
    /\ result' = IF ok THEN [kind |-> "return", value |-> ResponseOf(db_interaction)]
                       ELSE Http500
    /\ failed_at' = IF ok THEN "none" ELSE "response"
    /\ rpc' = IF ok THEN "Returning" ELSE "Raising"
    /\ UNCHANGED <<payload, db_table, db_pending, db_session, db_interaction,
                   before, nreq, pvars, kvars, nvars>>

\* get_db resumes after its yield
DependencyExit(commit_ok) ==
    /\ rpc \in {"Returning", "Raising"}
    /\ LET after == AfterYield(db_table, db_pending, rpc = "Raising", commit_ok) IN
         /\ db_table' = after.table
         /\ failed_at' = IF rpc = "Returning" /\ after.error THEN "commit"
                                                             ELSE failed_at
    /\ db_pending' = <<>>
    /\ db_session' = "closed"
    /\ rpc' = "Finished"
    /\ UNCHANGED <<payload, db_interaction, result, before, nreq,
                   pvars, kvars, nvars>>

InitDb ==
    /\ PipelineInit
    /\ ConcInit
    /\ DbInit
    /\ HarnessIdle

NextDb ==
    \/ \E pl \in Payloads : Submit(pl)
    \/ \E how \in {"ok", "flush", "refresh"} : CreateInteraction(how)
    \/ \E ok \in BOOLEAN : BuildResponse(ok)
    \/ \E commit_ok \in BOOLEAN : DependencyExit(commit_ok)

SpecDb == InitDb /\ [][NextDb]_vars

(***************************************************************************)
(* Properties of the pipeline (specification Spec)                         *)
(***************************************************************************)
Done == pc = "Done"
Succeeded == Done /\ outcome.branch = "response_obj"
FailureBranches == {"error_message", "no_data", "validation_error", "agent_exec_error"}
Failed == Done /\ outcome.branch \in FailureBranches

\* the kind of failure each failing return statement stands for
KindOf(branch) ==
    CASE branch = "error_message" -> "ModelCallFailed"
      [] branch = "no_data" -> "NoDataExtracted"
      [] branch = "validation_error" -> "ValidationFailed"
      [] OTHER -> "AgentExecutionError"

AllNull == [f \in Fields |-> NoneVal]

Called == raw # Pending
\* the model call itself failed: it raised, gave no structured object, or
\* gave one that does not fit the schema
CallFailed ==
    /\ Called
    /\ \/ raw.kind \in {"raise", "none"}
       \/ /\ raw.kind = "args"
          /\ \E f \in Fields : ~FieldAccepts(f, raw.args[f])
CallSucceeded == Called /\ ~CallFailed

InputText == state.original_text.s
IsBlank(t) == \A i \in 1..Len(t) : t[i] \in Whitespace

\* C1: for every text and every behaviour of the model call, the invocation
\* ends by returning a response object: no exception reaches the caller,
\* and at every position before the return the next step of the invocation
\* can be taken (the model call can complete in each of its three ways;
\* the parsing step has no condition but its position).
C1_AlwaysReturns ==
    /\ pc # "Raised"
    /\ pc \in {"Start", "Node", "Awaiting", "Returned", "Normalizing", "Validating", "Done"}
    /\ pc = "Start" => ENABLED Invoke(<<>>)
    /\ pc = "Node" => ENABLED EnterNode
    /\ pc = "Awaiting" => \A k \in {"raise", "none", "args"} :
                              \E resp \in Responses : resp.kind = k /\ ENABLED LLMResponds(resp)
    /\ pc = "Returned" => ENABLED CheckFinalState
    /\ pc = "Validating" => ENABLED Validate
    /\ Done => outcome.kind = "return" /\ DOMAIN outcome.value = Fields

C1_Witness ==
    /\ Done
    /\ raw.kind = "raise"
    /\ InputText = <<>>

\* C2: every failing extraction gives the caller a value that carries the
\* failure (an error message under which the kind can be read) and so
\* differs from a success whose fields are all null.
C2_FailureIsTagged ==
    Failed => /\ "error" \in DOMAIN outcome.value
              /\ outcome.value # AllNull

\* C3: when the model call itself fails, the invocation goes from the call
\* straight to the failing return for ModelCallFailed, handing it the
\* message of the underlying error; the date and time parsing and the
\* validation are not run.
C3_CallFailureShortCircuits ==
    CallFailed =>
        /\ pc \in {"Returned", "Done"}
        /\ trace = <<"Calling">>
        /\ extracted_data = <<>>
        /\ state.error_message.tag = "msg"
        /\ state.error_message.prefix = "Error during LLM call: "
        /\ raw.kind = "raise" => state.error_message.detail = raw.exc.msg
        /\ Done => /\ KindOf(outcome.branch) = "ModelCallFailed"
                   /\ outcome.kwargs = [error |-> state.error_message]

C3_Witness ==
    /\ Done
    /\ raw.kind = "raise"
    /\ raw.exc.msg = "Connection error."
    /\ outcome.branch = "error_message"
    /\ outcome.kwargs.error.detail = "Connection error."

\* C4: each invocation issues exactly one call to the model, on every path:
\* never more than one, and exactly one once the call has been issued, up to
\* and including the return, whether the call succeeded or failed.
C4_ExactlyOneCall ==
    /\ llm_calls <= 1
    /\ pc \notin {"Start", "Node"} => llm_calls = 1
    /\ pc \in {"Start", "Node"} => llm_calls = 0

C4_Witness ==
    /\ Done
    /\ CallFailed
    /\ raw.kind = "none"
    /\ llm_calls = 1

\* the model answered with a structured object none of whose fields is set
EmptyCandidate == Called /\ raw.kind = "args" /\ raw.args = AllNull

\* C5 as stated: for an empty or whitespace-only text, a model result with
\* no populated field gives Success with all fields null, not a Failure.
C5_BlankTextEmptyResultSucceeds ==
    (Done /\ IsBlank(InputText) /\ EmptyCandidate) =>
        /\ outcome.branch = "response_obj"
        /\ outcome.value = AllNull

\* C5 as amended: an empty or whitespace-only text is forwarded unchanged
\* to the one model call, and a model result with no populated field takes
\* the failing return "No data extracted" (NoDataExtracted), without the
\* parsing and validation steps; the object returned has all fields null.
C5_BlankTextEmptyResultIsNoData ==
    (Done /\ IsBlank(InputText) /\ EmptyCandidate) =>
        /\ llm_calls = 1
        /\ KindOf(outcome.branch) = "NoDataExtracted"
        /\ outcome.kwargs = [error |-> Msg("No data extracted", "")]
        /\ trace = <<"Calling">>
        /\ outcome.value = AllNull

C5_Witness ==
    /\ Done
    /\ InputText = Chars("blank")
    /\ EmptyCandidate
    /\ outcome.branch = "no_data"

\* C6: a sentiment string produced by the model is accepted only if it is
\* one of "Positive", "Neutral", "Negative"; any other sentiment string
\* ends the extraction in the failure kind ValidationFailed, and an accepted
\* one (in an answer that fits the schema otherwise) is returned unchanged.
C6_BadSentimentIsValidationFailed ==
    (Done /\ Called /\ raw.kind = "args" /\ raw.args["hcp_sentiment"].tag = "str") =>
        IF raw.args["hcp_sentiment"].s \in SentimentEnum
        THEN /\ Succeeded
             /\ outcome.value["hcp_sentiment"] = EnumVal(raw.args["hcp_sentiment"].s)
        ELSE /\ Failed
             /\ KindOf(outcome.branch) = "ValidationFailed"

\* what each field of the candidate is expected to become in the record
ExpectedField(f, v) ==
    CASE f = "interaction_date" ->
           (CASE v = StrVal(Chars("date_iso")) -> DateVal(2024, 3, 15)
              [] v = StrVal(Chars("date_short")) -> DateVal(2024, 3, 5)
              [] OTHER -> NoneVal)
      [] f = "interaction_time" ->
           (CASE v \in {StrVal(Chars("time_12")), StrVal(Chars("time_24")),
                        StrVal(Chars("time_12s"))} -> TimeVal(14, 30)
              [] OTHER -> NoneVal)
      [] f = "hcp_sentiment" -> (IF v.tag = "str" THEN EnumVal(v.s) ELSE v)
      [] OTHER -> v

UnparseableDates == {StrVal(Chars(n)) : n \in {"empty", "date_feb30", "date_us"}}
UnparseableTimes == {StrVal(Chars(n)) : n \in {"empty", "time_25"}}

\* C7: a date or time string that cannot be parsed never fails the
\* extraction: the outcome is Success, the unparseable field is null in the
\* record, and every other field has the value of the candidate (the other
\* of the two fields its parsed value).
C7_UnparseableFieldDegradesToNull ==
    (Done /\ CallSucceeded
          /\ (raw.args["interaction_date"] \in UnparseableDates
              \/ raw.args["interaction_time"] \in UnparseableTimes)) =>
        /\ Succeeded
        /\ \A f \in Fields : outcome.value[f] = ExpectedField(f, raw.args[f])

C7_Witness ==
    /\ Succeeded
    /\ raw.args["interaction_date"] = StrVal(Chars("date_feb30"))
    /\ raw.args["interaction_time"] = StrVal(Chars("time_12"))
    /\ outcome.value["interaction_date"] = NoneVal
    /\ outcome.value["interaction_time"] = TimeVal(14, 30)
    /\ outcome.value["hcp_name"] = StrVal(Chars("Dr"))

(***************************************************************************)
(* Properties of the date and time parsing (specification SpecNorm).       *)
(* The forms of date and time strings are stated here by cutting the       *)
(* string at its separators and looking the pieces up in the sets of       *)
(* written forms, independently of the matching done by strptime.          *)
(***************************************************************************)
Num2(a, b) == 10 * DigitVal(a) + DigitVal(b)

\* days of each month in the calendar
CalendarDays(y, m) ==
    LET feb == IF y % 400 = 0 \/ (y % 4 = 0 /\ y % 100 # 0) THEN 29 ELSE 28
    IN  <<31, feb, 31, 30, 31, 30, 31, 31, 30, 31, 30, 31>>[m]

IsCalendarDate(y, m, d) ==
    y \in 1..9999 /\ m \in 1..12 /\ d >= 1 /\ d <= CalendarDays(y, m)

AllDigits(s) == \A i \in 1..Len(s) : s[i] \in Digits

\* position of the first occurrence of c in s, or 0
FirstPos(s, c) ==
    IF \E i \in 1..Len(s) : s[i] = c
    THEN CHOOSE i \in 1..Len(s) : s[i] = c /\ \A j \in 1..(i - 1) : s[j] # c
    ELSE 0

\* a number written with one or two digits (or, when allowed, a space and
\* one digit), and its value
OneOrTwoDigits(p) == Len(p) \in {1, 2} /\ AllDigits(p)
WrittenValue(p) ==
    IF Len(p) = 1 THEN DigitVal(p[1])
    ELSE IF p[1] = " " THEN DigitVal(p[2])
    ELSE Num2(p[1], p[2])

\* exactly YYYY-MM-DD, naming a calendar date
StrictDate(s) ==
    /\ Len(s) = 10
    /\ s[5] = "-" /\ s[8] = "-"
    /\ \A i \in {1, 2, 3, 4, 6, 7, 9, 10} : s[i] \in Digits
    /\ IsCalendarDate(IntOf(SubSeq(s, 1, 4)), Num2(s[6], s[7]), Num2(s[9], s[10]))

StrictDateValue(s) == DateVal(IntOf(SubSeq(s, 1, 4)), Num2(s[6], s[7]), Num2(s[9], s[10]))

\* the pieces of a date string: year, month, day
DateYearPart(s) == SubSeq(s, 1, 4)
DateRest(s) == SubSeq(s, 6, Len(s))
DateMonthPart(s) == SubSeq(DateRest(s), 1, FirstPos(DateRest(s), "-") - 1)
DateDayPart(s) == SubSeq(DateRest(s), FirstPos(DateRest(s), "-") + 1, Len(DateRest(s)))

\* a four-digit year, "-", a month and "-", a day, the month and the day
\* written with one or two digits, a one-digit day possibly after a space
LenientDate(s) ==
    /\ Len(s) >= 8
    /\ AllDigits(DateYearPart(s))
    /\ s[5] = "-"
    /\ FirstPos(DateRest(s), "-") > 0
    /\ OneOrTwoDigits(DateMonthPart(s))
    /\ \/ OneOrTwoDigits(DateDayPart(s))
       \/ /\ Len(DateDayPart(s)) = 2
          /\ DateDayPart(s)[1] = " "
          /\ DateDayPart(s)[2] \in Digits
    /\ IsCalendarDate(IntOf(DateYearPart(s)), WrittenValue(DateMonthPart(s)),
                      WrittenValue(DateDayPart(s)))

LenientDateValue(s) ==
    DateVal(IntOf(DateYearPart(s)), WrittenValue(DateMonthPart(s)),
            WrittenValue(DateDayPart(s)))

DateCase == nfield = "interaction_date" /\ Len(nhist) >= 2 /\ nhist[1].tag = "str"
TimeCase == nfield = "interaction_time" /\ Len(nhist) >= 2 /\ nhist[1].tag = "str"

\* C9 as stated: the date parsing gives the calendar date for every valid
\* YYYY-MM-DD string and null for every other string.
C9_DateStrictOrNull ==
    DateCase =>
        nhist[2] = IF StrictDate(nhist[1].s) THEN StrictDateValue(nhist[1].s) ELSE NoneVal

\* C9 as amended: the date parsing gives the calendar date for every string
\* made of a four-digit year, "-", a month, "-" and a day that name a real
\* date, the month and the day written with one or two digits (a one-digit
\* day possibly after a space): every valid YYYY-MM-DD string, and also
\* 2024-3-5.  It gives null, without raising, for every other string.
C9_DateLenientOrNull ==
    DateCase =>
        /\ nhist[2] = IF LenientDate(nhist[1].s) THEN LenientDateValue(nhist[1].s)
                      ELSE NoneVal
        /\ StrictDate(nhist[1].s) => nhist[2] = StrictDateValue(nhist[1].s)

C9_Witness ==
    /\ DateCase
    /\ nhist[1].s = <<"2", "0", "2", "4", "-", "0", "2", "-", "2", "9">>
    /\ nhist[2] = DateVal(2024, 2, 29)

\* exactly HH:MM, a time of day
Strict24(s) ==
    /\ Len(s) = 5
    /\ s[3] = ":"
    /\ \A i \in {1, 2, 4, 5} : s[i] \in Digits
    /\ Num2(s[1], s[2]) <= 23 /\ Num2(s[4], s[5]) <= 59

\* exactly HH:MM, a space and AM or PM in either case
Strict12(s) ==
    /\ Len(s) = 8
    /\ s[3] = ":" /\ s[6] = " "
    /\ \A i \in {1, 2, 4, 5} : s[i] \in Digits
    /\ Num2(s[1], s[2]) \in 1..12 /\ Num2(s[4], s[5]) <= 59
    /\ s[7] \in {"a", "A", "p", "P"} /\ s[8] \in {"m", "M"}

\* the time of day that hour h (1..12) of the half of the day names
To24(h, isPM) == IF isPM THEN (IF h = 12 THEN 12 ELSE 12 + h) ELSE (IF h = 12 THEN 0 ELSE h)

Strict12Value(s) == TimeVal(To24(Num2(s[1], s[2]), s[7] \in {"p", "P"}), Num2(s[4], s[5]))
Strict24Value(s) == TimeVal(Num2(s[1], s[2]), Num2(s[4], s[5]))

\* the pieces of a time string: hour, what follows the colon
TimeHourPart(s) == SubSeq(s, 1, FirstPos(s, ":") - 1)
TimeAfter(s) == SubSeq(s, FirstPos(s, ":") + 1, Len(s))
\* of what follows the colon: the two last characters, and the rest
TimeMeridiem(s) == SubSeq(TimeAfter(s), Len(TimeAfter(s)) - 1, Len(TimeAfter(s)))
TimeBody(s) == SubSeq(TimeAfter(s), 1, Len(TimeAfter(s)) - 2)

\* hour and minute written with one or two digits, hour 0..23
Lenient24(s) ==
    /\ FirstPos(s, ":") > 0
    /\ OneOrTwoDigits(TimeHourPart(s)) /\ WrittenValue(TimeHourPart(s)) <= 23
    /\ OneOrTwoDigits(TimeAfter(s)) /\ WrittenValue(TimeAfter(s)) <= 59

\* hour 1..12 and minute written with one or two digits, then whitespace,
\* then AM or PM in either case
Lenient12(s) ==
    /\ FirstPos(s, ":") > 0
    /\ OneOrTwoDigits(TimeHourPart(s)) /\ WrittenValue(TimeHourPart(s)) \in 1..12
    /\ Len(TimeAfter(s)) >= 4
    /\ TimeMeridiem(s)[1] \in {"a", "A", "p", "P"} /\ TimeMeridiem(s)[2] \in {"m", "M"}
    /\ Len(RStrip(TimeBody(s))) < Len(TimeBody(s))
    /\ OneOrTwoDigits(RStrip(TimeBody(s))) /\ WrittenValue(RStrip(TimeBody(s))) <= 59

Lenient12Value(s) ==
    TimeVal(To24(WrittenValue(TimeHourPart(s)), TimeMeridiem(s)[1] \in {"p", "P"}),
            WrittenValue(RStrip(TimeBody(s))))
Lenient24Value(s) == TimeVal(WrittenValue(TimeHourPart(s)), WrittenValue(TimeAfter(s)))

\* C8 as stated: the time parsing gives the equivalent time of day for every
\* string HH:MM AM/PM (either case), that time for every 24-hour HH:MM
\* string, and null for every other string.
C8_TimeStrictOrNull ==
    TimeCase =>
        nhist[2] = IF Strict12(nhist[1].s) THEN Strict12Value(nhist[1].s)
                   ELSE IF Strict24(nhist[1].s) THEN Strict24Value(nhist[1].s)
                   ELSE NoneVal

\* C8 as amended: with the whitespace around the string removed, and hour
\* and minute written with one or two digits, the time parsing gives the
\* equivalent time of day for every 12-hour string (hour 1..12, minute,
\* whitespace, AM or PM in either case: "02:30 PM" and "2:30 pm" give
\* 14:30), that time for every 24-hour string (hour 0..23, minute), and
\* null for every other string.
C8_TimeLenientOrNull ==
    TimeCase =>
        LET t == Strip(nhist[1].s)
        IN  /\ nhist[2] = IF Lenient12(t) THEN Lenient12Value(t)
                          ELSE IF Lenient24(t) THEN Lenient24Value(t)
                          ELSE NoneVal
            /\ Strict12(nhist[1].s) => nhist[2] = Strict12Value(nhist[1].s)
            /\ Strict24(nhist[1].s) => nhist[2] = Strict24Value(nhist[1].s)

C8_Witness ==
    /\ TimeCase
    /\ nhist[1].s = <<"0", "2", ":", "3", "0", " ", "P", "M">>
    /\ nhist[2] = TimeVal(14, 30)

\* C10: applying the date and time parsing to a value that is already a
\* date or a time (or null), such as its own result, leaves the value
\* unchanged.
C10_NormalizationIdempotent ==
    \A i \in 1..(Len(nhist) - 1) :
        nhist[i].tag \in {"date", "time", "none"} => nhist[i + 1] = nhist[i]

C10_Witness ==
    /\ Len(nhist) = 3
    /\ nhist[1].tag = "str"
    /\ nhist[2].tag = "date"
    /\ nhist[3] = nhist[2]

(***************************************************************************)
(* Further properties of the pipeline (specification Spec)                 *)
(***************************************************************************)
DateTimeFields == {"interaction_date", "interaction_time"}

\* the candidate has a populated field, and its populated fields are all
\* date or time strings that cannot be parsed
OnlyUnparseableDateTime ==
    /\ CallSucceeded
    /\ raw.args # AllNull
    /\ \A f \in Fields \ DateTimeFields : raw.args[f] = NoneVal
    /\ raw.args["interaction_date"] \in UnparseableDates \cup {NoneVal}
    /\ raw.args["interaction_time"] \in UnparseableTimes \cup {NoneVal}

\* C11: an extraction ends in the failure NoDataExtracted exactly when the
\* candidate returned by the model has no populated field; a candidate
\* whose only populated fields are date or time strings that parse to null
\* ends in Success with all fields null.
C11_NoDataIffEmptyCandidate ==
    Done =>
        /\ KindOf(outcome.branch) = "NoDataExtracted" <=> EmptyCandidate
        /\ OnlyUnparseableDateTime => Succeeded /\ outcome.value = AllNull

C11_Witness ==
    /\ Succeeded
    /\ OnlyUnparseableDateTime
    /\ raw.args["interaction_date"] = StrVal(Chars("date_us"))
    /\ raw.args["interaction_time"] = StrVal(Chars("time_25"))
    /\ outcome.value = AllNull

\* C12: the parsing step changes the date and the time alone, and on every
\* successful extraction each other field of the returned record has the
\* value it had in the candidate: absent fields are null, list fields keep
\* their elements in order.
C12_OtherFieldsPassThrough ==
    /\ pc = "Validating" =>
          \A f \in Fields \ DateTimeFields :
              Get(extracted_data, f) = ExpectedField(f, raw.args[f])
    /\ Succeeded =>
          \A f \in Fields \ DateTimeFields :
              outcome.value[f] = ExpectedField(f, raw.args[f])

C12_Witness ==
    /\ Succeeded
    /\ raw.args["attendees"] = ListVal(<<Chars("Dr"), Chars("met")>>)
    /\ outcome.value["attendees"] = ListVal(<<Chars("Dr"), Chars("met")>>)
    /\ outcome.value["hcp_name"] = StrVal(Chars("Dr"))
    /\ outcome.value["outcomes"] = NoneVal
    /\ raw.args["interaction_date"] = StrVal(Chars("date_short"))
    /\ outcome.value["interaction_date"] = DateVal(2024, 3, 5)

StepOrder == <<"Calling", "Normalizing", "Validating">>

\* C13: within one extraction the steps run in the order Calling,
\* Normalizing, Validating, each at most once; Succeeded is reached only
\* after Validating has completed without error; and no step of the
\* extraction starts once it has succeeded or failed.
C13_StepsInOrder ==
    /\ [](/\ Len(trace) <= 3
          /\ trace = SubSeq(StepOrder, 1, Len(trace))
          /\ pc = "Normalizing" => trace = <<"Calling">>
          /\ pc = "Validating" => trace = <<"Calling", "Normalizing">>
          /\ Succeeded => /\ trace = StepOrder
                          /\ ParseResponse(extracted_data).ok
                          /\ outcome.value = ParseResponse(extracted_data).obj
          /\ Failed => trace = <<"Calling">>)
    /\ [][pc \notin {"Done", "Raised"}]_vars

C13_Witness ==
    /\ Succeeded
    /\ trace = <<"Calling", "Normalizing", "Validating">>
    /\ raw.args["hcp_sentiment"] = StrVal(NEGATIVE)


(***************************************************************************)
(* The current date given to the model                                     *)
(***************************************************************************)
Requested == "made_on" \in DOMAIN request

\* C14: the current date given to the model with a request is the calendar
\* date of the day on which that request is made, also when the process has
\* run across a day boundary.
C14_CurrentDateIsRequestDate ==
    Requested => request.current_date = request.made_on


(***************************************************************************)
(* Properties of concurrent invocations (specification SpecConc)           *)
(***************************************************************************)
\* what an invocation returns when it runs alone with text t and the model
\* call does resp
SoloOutcome(t, resp) ==
    FinalOutcome(CallExtractionModel([original_text |-> StrVal(t)], resp))

\* a step of invocation p leaves what belongs to every other invocation as
\* it was
OnlyOwnWrites ==
    \A p \in Invocations :
        cpc'[p] = cpc[p] =>
            /\ ctext'[p] = ctext[p]
            /\ cstate'[Slot(p)] = cstate[Slot(p)]
            /\ craw'[p] = craw[p]
            /\ coutcome'[p] = coutcome[p]

\* C15: concurrent extractions are independent. Whatever the interleaving
\* of the invocations at their model call, each works on the text it was
\* given, each returns what it would return alone with the same text and
\* the same model response, and no step of one changes what belongs to
\* another.
C15_ConcurrentIndependent ==
    /\ [](\A p \in Invocations :
            /\ cpc[p] = "Awaiting" =>
                  cstate[Slot(p)] = [original_text |-> StrVal(ctext[p])]
            /\ cpc[p] \in {"Returned", "Done"} =>
                  cstate[Slot(p)] =
                      CallExtractionModel([original_text |-> StrVal(ctext[p])], craw[p])
            /\ cpc[p] = "Done" => coutcome[p] = SoloOutcome(ctext[p], craw[p]))
    /\ [][OnlyOwnWrites]_vars

\* two invocations were in flight together, their calls completed in the
\* reverse order, and one succeeded while the other failed
C15_Witness ==
    /\ cpc[1] = "Done" /\ cpc[2] = "Done"
    /\ ctext[1] = Chars("met") /\ ctext[2] = Chars("blank")
    /\ craw[1].kind = "args" /\ craw[2].kind = "raise"
    /\ coutcome[1].branch = "response_obj"
    /\ coutcome[1].value["hcp_name"] = StrVal(Chars("Dr"))
    /\ coutcome[2].branch = "error_message"


(***************************************************************************)
(* Properties of storage (specification SpecDb)                            *)
(***************************************************************************)
InRequest == rpc \in {"InEndpoint", "Created", "Returning", "Raising"}

\* C16: submitting an interaction is atomic with respect to storage. When
\* the request finishes and no step of it raised, exactly one new record,
\* the one of the request, has been committed; when a step raised, also
\* after the record was added and flushed, nothing of the request is
\* persisted; nothing is persisted before the request finishes; and in
\* both cases the session is closed, with no row left pending.
C16_SubmitIsAtomic ==
    /\ InRequest => db_table = before /\ db_session = "open"
    /\ rpc = "Finished" =>
          /\ db_session = "closed"
          /\ db_pending = <<>>
          /\ failed_at = "none" =>
                /\ result.kind = "return"
                /\ db_table = Append(before, db_interaction)
          /\ failed_at # "none" => db_table = before

\* a second request flushed its record, failed while building the
\* response, and left only the record of the first request
C16_Witness ==
    /\ rpc = "Finished"
    /\ nreq = 2
    /\ failed_at = "response"
    /\ db_interaction # NoneVal
    /\ Len(before) = 1
    /\ db_table = before
    /\ db_session = "closed"

\* C17: list fields survive persistence unchanged. For every record
\* created with attendees, materials_shared or samples_distributed given
\* as a list of strings, the record read back holds a list with the same
\* strings in the same order.
C17_ListsSurvivePersistence ==
    rpc \in {"Returning", "Finished"} /\ result.kind = "return" =>
        \A f \in ListFields :
            Get(payload, f).tag = "list" => result.value[f] = payload[f]

====
